---- MODULE Spec2Model ----
(***************************************************************************)
(* Model of the geostatistics toolkit: the two core operations             *)
(* (generate_synthetic_field, run_kriging of core.py), the VTK serializer  *)
(* (save_to_vtk of io_utils.py) and the demo workflow (main of             *)
(* demo_workflow.py).                                                      *)
(*                                                                         *)
(* Arrays are sequences, 2D arrays are sequences of rows.  A value of the  *)
(* random field is kept symbolically as the pair <<a, b>> of the axis      *)
(* indices the generator computed it for, so that indexing, transposition  *)
(* and flattening stay observable.  An exception is the name of its class; *)
(* the empty string means that the call returned.                          *)
(***************************************************************************)
EXTENDS Integers, Sequences, FiniteSets, TLC

VARIABLES call, vtk, pc, cfg, out, true_x, true_y, true_field, idx_x, idx_y,
          sample_x, sample_y, sample_values, kriged, exported

vars == <<call, vtk, pc, cfg, out, true_x, true_y, true_field, idx_x, idx_y,
          sample_x, sample_y, sample_values, kriged, exported>>

mainVars == <<pc, cfg, out, true_x, true_y, true_field, idx_x, idx_y,
              sample_x, sample_y, sample_values, kriged, exported>>

(* ------------------------------ bounds --------------------------------- *)

\* largest number of grid nodes along one axis
MaxGrid == 2

\* largest number of sample points handed to the solver
MaxSamples == 2

\* largest number of fields in one export
MaxFields == 2

(* ----------------------------- helpers --------------------------------- *)

RECURSIVE GCD(_, _)
GCD(a, b) == IF b = 0 THEN a ELSE GCD(b, a % b)

\* an exact rational n/d (d > 0) in lowest terms
Rat(n, d) == LET g == GCD(n, d) IN IF g = 0 THEN <<0, 1>> ELSE <<n \div g, d \div g>>

\* numpy.linspace(0, stop, num): num evenly spaced values from 0 to stop
Linspace(stop, num) ==
    [k \in 1..num |-> IF num = 1 THEN Rat(0, 1) ELSE Rat((k - 1) * stop, num - 1)]

\* ndarray.shape of a 2D array
Shape(a) == <<Len(a), IF Len(a) = 0 THEN 0 ELSE Len(a[1])>>

\* all sequences over S of length exactly n
SeqsOfLen(S, n) == [1..n -> S]

\* the strings a caller may pass as a covariance / variogram family
ModelNames == {"gaussian", "spherical", "exponential", "Gaussian",
               "linear", "power", "hole-effect", "custom", "cubic"}

\* str.lower() on the names above
Lower(s) == IF s = "Gaussian" THEN "gaussian" ELSE s

(* --------------------- core.py: generate_synthetic_field --------------- *)

\* keys of model_map
model_map == {"gaussian", "spherical", "exponential"}

\* SRF.structured([x, y]) of gstools: the field on the mesh of the axes given,
\* one axis of the array per position axis in the order given, so the result
\* has shape (len(pos[0]), len(pos[1])); entry [a][b] is the field at
\* (pos[0][a], pos[1][b])
Structured(x, y) == [a \in 1..Len(x) |-> [b \in 1..Len(y) |-> <<a, b>>]]

NoField == <<>>

generate_synthetic_field(x_max, y_max, nx, ny, model_type) ==
    LET x == Linspace(x_max, nx)
        y == Linspace(y_max, ny)
    IN  IF Lower(model_type) \notin model_map
        THEN [raised |-> "ValueError", x |-> <<>>, y |-> <<>>, field |-> NoField]
        ELSE [raised |-> "", x |-> x, y |-> y, field |-> Structured(x, y)]

(* --------------------------- core.py: run_kriging ---------------------- *)

\* the params argument: None, or a dict with any of the keys 'model', 'angle'
\* (a key that is absent carries the filler value shown)
NoneParams == [none |-> TRUE, keys |-> {}, model |-> "", angle |-> 0]

DictParams(keys, m, a) ==
    [none |-> FALSE, keys |-> keys,
     model |-> IF "model" \in keys THEN m ELSE "",
     angle |-> IF "angle" \in keys THEN a ELSE 0]

\* dict.get(key, default)
Get(params, key, default) == IF key \in params.keys THEN params[key] ELSE default

\* another fallback family
DefaultModel_Spherical == "spherical"

\* the family run_kriging uses when the caller names none
DefaultModel == "gaussian"

\* variogram_dict of pykrige's OrdinaryKriging
variogram_dict == {"linear", "power", "gaussian", "spherical", "exponential", "hole-effect"}

\* OrdinaryKriging.__init__: rejects a variogram_model it does not know; 'custom'
\* needs a variogram_function, which run_kriging never passes
OrdinaryKrigingRaises(variogram_model) == variogram_model \notin variogram_dict

\* the variogram family handed to OrdinaryKriging
SolverModel(params) ==
    IF params.none THEN DefaultModel ELSE Get(params, "model", DefaultModel)

\* final_params with the caller's angle dropped
FinalParams_DefaultAngle(params) ==
    [model |-> IF params.none THEN "gaussian" ELSE Get(params, "model", "gaussian"),
     angle |-> 0]

\* final_params
FinalParams(params) ==
    IF params.none
    THEN [model |-> DefaultModel, angle |-> 0]
    ELSE [model |-> Get(params, "model", DefaultModel), angle |-> Get(params, "angle", 0)]

\* what run_kriging returns of the variances ok.execute computed
ReturnedVariances(variances) == variances

NoResult == [predictions |-> <<>>, variances |-> <<>>, final_params |-> [model |-> "", angle |-> 0]]

\* solve: what ok.execute('grid', grid_x, grid_y) does on these samples, either
\* raising or returning predictions and variances of shape (len(grid_y), len(grid_x))
run_kriging(sx, sy, sv, grid_x, grid_y, params, solve) ==
    IF OrdinaryKrigingRaises(SolverModel(params))
    THEN [raised |-> "ValueError", result |-> NoResult]
    ELSE IF solve.raised # ""
    THEN [raised |-> solve.raised, result |-> NoResult]
    ELSE [raised |-> "",
          result |-> [predictions |-> solve.predictions,
                      variances |-> ReturnedVariances(solve.variances),
                      final_params |-> FinalParams(params)]]

(* ------------------- calls of the core operations ---------------------- *)

\* the family names the model passes in
CallerModels == {"gaussian", "exponential", "Gaussian", "linear", "custom", "cubic"}

\* anisotropy angles, in degrees
Angles == {0, 45}

\* domain extents x_max, y_max
Extents == {100}

\* the raw kriging variance of a node, by sign (rounding can leave it below zero)
RawVariances == {-1, 1}

AllParams ==
    {NoneParams} \cup
    {DictParams(ks, m, a) : ks \in SUBSET {"model", "angle"}, m \in CallerModels, a \in Angles}

\* a sample location (x, y)
SamplePoints == {<<Rat(0, 1), Rat(0, 1)>>, <<Rat(100, 1), Rat(0, 1)>>}

\* two samples at one location
HasDuplicates(sx, sy) ==
    \E k, l \in 1..Len(sx) : k # l /\ sx[k] = sx[l] /\ sy[k] = sy[l]

\* ok.execute('grid', grid_x, grid_y): predictions and variances of shape
\* (len(grid_y), len(grid_x)), entry [j][i] for the node (grid_x[i], grid_y[j]);
\* coincident samples make the kriging matrix singular, and the inversion may
\* then raise
SolveOutcomes(sx, sy, grid_x, grid_y) ==
    {[raised |-> "", predictions |-> [j \in 1..Len(grid_y) |-> [i \in 1..Len(grid_x) |-> <<i, j>>]],
      variances |-> v] : v \in [1..Len(grid_y) -> [1..Len(grid_x) -> RawVariances]]}
    \cup
    (IF HasDuplicates(sx, sy)
     THEN {[raised |-> "LinAlgError", predictions |-> <<>>, variances |-> <<>>]}
     ELSE {})

NoCall == [op |-> "none"]

\* a call that has not returned yet
Pending == [raised |-> "pending"]

\* the arguments of one call of generate_synthetic_field
GenerateCalls ==
    {[op |-> "generate_synthetic_field", x_max |-> xm, y_max |-> ym,
      nx |-> nx, ny |-> ny, model_type |-> mt, ret |-> Pending] :
        xm \in Extents, ym \in Extents, nx \in 1..MaxGrid, ny \in 1..MaxGrid, mt \in ModelNames}

\* the arguments of one call of run_kriging on n samples
KrigingCalls(n) ==
    {[op |-> "run_kriging",
      sample_x |-> [k \in 1..n |-> pts[k][1]],
      sample_y |-> [k \in 1..n |-> pts[k][2]],
      sample_values |-> [k \in 1..n |-> k],
      grid_x |-> Linspace(xm, nx), grid_y |-> Linspace(xm, ny),
      params |-> params, solve |-> Pending, ret |-> Pending] :
        pts \in SeqsOfLen(SamplePoints, n), xm \in Extents,
        nx \in 1..MaxGrid, ny \in 1..MaxGrid, params \in AllParams}

CallGenerate ==
    /\ call.op = "generate_synthetic_field" /\ call.ret = Pending
    /\ call' = [call EXCEPT !.ret = generate_synthetic_field(
                    call.x_max, call.y_max, call.nx, call.ny, call.model_type)]
    /\ UNCHANGED <<vtk, mainVars>>

CallKriging ==
    /\ call.op = "run_kriging" /\ call.ret = Pending
    /\ \E solve \in SolveOutcomes(call.sample_x, call.sample_y, call.grid_x, call.grid_y) :
          call' = [call EXCEPT !.solve = solve,
                               !.ret = run_kriging(call.sample_x, call.sample_y,
                                                   call.sample_values, call.grid_x,
                                                   call.grid_y, call.params, solve)]
    /\ UNCHANGED <<vtk, mainVars>>

(* ------------------------ io_utils.py: save_to_vtk --------------------- *)

\* str(v): the decimal text of a value
Str(v) == ToString(v)

\* " ".join(map(str, values)): one token per value, in order
JoinStr(values) == [p \in 1..Len(values) |-> Str(values[p])]

\* a 2D array read column by column (order='F')
RECURSIVE Flatten_ColumnMajor(_)
Flatten_ColumnMajor(a) ==
    IF a = <<>> \/ a[1] = <<>>
    THEN <<>>
    ELSE [j \in 1..Len(a) |-> a[j][1]]
         \o Flatten_ColumnMajor([j \in 1..Len(a) |-> Tail(a[j])])

\* rows of a 2D array laid end to end
RECURSIVE ConcatRows(_)
ConcatRows(a) == IF a = <<>> THEN <<>> ELSE Head(a) \o ConcatRows(Tail(a))

\* ndarray.flatten(): C order, the last index varying fastest
Flatten(a) == ConcatRows(a)

\* an ascii Float64 DataArray element
DataArray(name, values) ==
    [type |-> "Float64", Name |-> name, NumberOfComponents |-> "1",
     format |-> "ascii", text |-> JoinStr(values)]

\* f"0 {nx-1} 0 {ny-1} 0 0"
ExtentText(nx, ny) == JoinStr(<<0, nx - 1, 0, ny - 1, 0, 0>>)

\* the PointData block: one DataArray per item of data_fields
PointData(data_fields) ==
    [k \in 1..Len(data_fields) |->
        DataArray(data_fields[k].name, Flatten(data_fields[k].values))]

\* the fields whose shape the coordinate check looks at
CheckedFields(data_fields) == {1}

\* some checked field disagrees with the coordinate arrays
CoordinateMismatch(data_fields, x_coords, y_coords) ==
    \E k \in CheckedFields(data_fields) :
        Shape(data_fields[k].values) # <<Len(y_coords), Len(x_coords)>>

NoFile == [path |-> ""]

\* data_fields is a dict, kept as the sequence of its items in insertion order;
\* write is what tree.write() does: "" when it writes, else the error it raises
save_to_vtk(filepath, data_fields, x_coords, y_coords, z_coord, write) ==
    IF data_fields = <<>>
    THEN [raised |-> "StopIteration", file |-> NoFile]
    ELSE IF CoordinateMismatch(data_fields, x_coords, y_coords)
    THEN [raised |-> "ValueError", file |-> NoFile]
    ELSE IF write # ""
    THEN [raised |-> write, file |-> NoFile]
    ELSE LET ny == Shape(data_fields[1].values)[1]
             nx == Shape(data_fields[1].values)[2]
         IN  [raised |-> "",
              file |-> [path |-> filepath \o ".vtr",
                        VTKFile |-> [type |-> "RectilinearGrid", version |-> "1.0",
                                     byte_order |-> "LittleEndian"],
                        WholeExtent |-> ExtentText(nx, ny),
                        PieceExtent |-> ExtentText(nx, ny),
                        Coordinates |-> << DataArray("X_COORDINATES", x_coords),
                                           DataArray("Y_COORDINATES", y_coords),
                                           DataArray("Z_COORDINATES", <<z_coord>>) >>,
                        PointData |-> PointData(data_fields)]]

(* ------------------------- calls of save_to_vtk ------------------------ *)

FieldNames == <<"Prediction", "Variance", "GroundTruth">>

\* the array of shape (r, c) exported under the k-th name: every entry differs
TestArray(k, r, c) == [j \in 1..r |-> [i \in 1..c |-> 100 * k + 10 * j + i]]

\* no name twice
Injective(f) == \A a, b \in DOMAIN f : a # b => f[a] # f[b]

\* dicts of n fields, each of a shape of its own
FieldDicts(n) ==
    {[k \in 1..n |-> [name |-> FieldNames[names[k]],
                      values |-> TestArray(names[k], shapes[k][1], shapes[k][2])]] :
        names \in {f \in SeqsOfLen(1..Len(FieldNames), n) : Injective(f)},
        shapes \in SeqsOfLen((1..MaxGrid) \X (1..MaxGrid), n)}

\* what tree.write() may do
WriteOutcomes == {"", "OSError"}

\* the arguments of one call of save_to_vtk on n fields
VtkCalls(n) ==
    {[op |-> "save_to_vtk", filepath |-> "out/kriging", data_fields |-> d,
      x_coords |-> Linspace(xm, lx), y_coords |-> Linspace(xm, ly), z_coord |-> 0,
      ret |-> Pending] :
        d \in FieldDicts(n), xm \in Extents, lx \in 1..MaxGrid, ly \in 1..MaxGrid}

CallSaveToVtk ==
    /\ vtk.op = "save_to_vtk" /\ vtk.ret = Pending
    /\ \E write \in WriteOutcomes :
          vtk' = [vtk EXCEPT !.ret = save_to_vtk(vtk.filepath, vtk.data_fields,
                                                 vtk.x_coords, vtk.y_coords,
                                                 vtk.z_coord, write)]
    /\ UNCHANGED <<call, mainVars>>

NoVtk == [op |-> "none"]

MainIdle == 
    /\ pc = "idle" /\ cfg = <<>> /\ out = <<>>
    /\ true_x = <<>> /\ true_y = <<>> /\ true_field = <<>>
    /\ idx_x = <<>> /\ idx_y = <<>>
    /\ sample_x = <<>> /\ sample_y = <<>> /\ sample_values = <<>>
    /\ kriged = <<>> /\ exported = <<>>

Init ==
    /\ \/ call \in GenerateCalls
       \/ \E n \in 1..MaxSamples : call \in KrigingCalls(n)
    /\ vtk = NoVtk
    /\ MainIdle

Next == CallGenerate \/ CallKriging

Spec == Init /\ [][Next]_vars

(* ------------------- properties of the core operations ----------------- *)

Generated == call.op = "generate_synthetic_field" /\ call.ret # Pending

Kriged == call.op = "run_kriging" /\ call.ret # Pending

\* the families of the specification
KnownFamilies == {"gaussian", "spherical", "exponential"}

\* C1: the field generate_synthetic_field returns has shape (ny, nx), next to
\* x of length nx and y of length ny.
C1_FieldShape ==
    (Generated /\ call.ret.raised = "") =>
        /\ Len(call.ret.x) = call.nx
        /\ Len(call.ret.y) = call.ny
        /\ Shape(call.ret.field) = <<call.ny, call.nx>>

\* C2: every entry of the variance field run_kriging returns is >= 0.
C2_VarianceNonNegative ==
    (Kriged /\ call.ret.raised = "") =>
        \A j \in 1..Len(call.ret.result.variances) :
            \A i \in 1..Len(call.ret.result.variances[j]) :
                call.ret.result.variances[j][i] >= 0

\* C3: run_kriging returns predictions, variances and final_params together,
\* and with params = {'model': m, 'angle': a} final_params is exactly
\* {'model': m, 'angle': a}.
C3_FinalParamsEcho ==
    (Kriged /\ call.ret.raised = "") =>
        /\ Shape(call.ret.result.predictions) = <<Len(call.grid_y), Len(call.grid_x)>>
        /\ Shape(call.ret.result.variances) = <<Len(call.grid_y), Len(call.grid_x)>>
        /\ (call.params.keys = {"model", "angle"} =>
               call.ret.result.final_params =
                   [model |-> call.params.model, angle |-> call.params.angle])

C3_Witness ==
    /\ Kriged /\ call.ret.raised = ""
    /\ call.params.keys = {"model", "angle"}
    /\ call.params.model = "linear" /\ call.params.angle = 45
    /\ call.ret.result.final_params = [model |-> "linear", angle |-> 45]

\* C4: a family name outside {gaussian, spherical, exponential} makes the
\* operation that receives it fail with an unknown-model error and return
\* nothing (names are compared without regard to case).
C4_UnknownModelRejected ==
    /\ (Generated /\ Lower(call.model_type) \notin KnownFamilies) =>
           (call.ret.raised = "ValueError" /\ call.ret.field = NoField)
    /\ (Kriged /\ "model" \in call.params.keys /\ Lower(call.params.model) \notin KnownFamilies) =>
           (call.ret.raised = "ValueError" /\ call.ret.result = NoResult)

\* the caller gave run_kriging no variogram family
NoFamilyGiven == call.params.none \/ "model" \notin call.params.keys

\* C5 as claimed: called without a variogram family, run_kriging does not
\* complete successfully on a default family.
C5_NoSilentFallback ==
    (Kriged /\ NoFamilyGiven) => call.ret.raised # ""

\* C5 as amended: called without a variogram family, run_kriging is never
\* rejected for the missing family; it completes on the default family
\* 'gaussian' and names it in final_params, and a family the caller gave is
\* never replaced.
C5_FallbackIsGaussian ==
    Kriged =>
        /\ NoFamilyGiven => call.ret.raised # "ValueError"
        /\ (NoFamilyGiven /\ call.ret.raised = "") =>
               call.ret.result.final_params.model = "gaussian"
        /\ (~NoFamilyGiven /\ call.ret.raised = "") =>
               call.ret.result.final_params.model = call.params.model

C5_Witness ==
    /\ Kriged /\ call.params.none /\ call.ret.raised = ""
    /\ call.ret.result.final_params = [model |-> "gaussian", angle |-> 0]
(* ------------------------ demo_workflow.py: main ----------------------- *)

\* what main prints
MsgSynthesis == "Generating synthetic field..."
MsgSynthesisError == "Error generating synthetic field"
MsgSampling == "Sampling observation points..."
MsgManual == "Using manual Kriging parameters"
MsgAuto == "Auto-optimizing variogram model..."
MsgKrigingError == "Error running kriging"
MsgKrigingComplete == "Kriging Complete using model"
MsgPlotting == "Generating comparison plot..."
MsgPlotSaved == "Plot saved to"
MsgPlotError == "Error creating plots"
MsgExporting == "Exporting VTK file..."
MsgVtkSaved == "VTK saved to"
MsgVtkError == "Error saving VTK file"

\* an exception no handler catches ends main with a traceback
Traceback(e) == "Traceback: " \o e

\* demo_config.yaml; variogram_model "" stands for a key that is absent or empty
Configs ==
    {[x_max |-> xm, y_max |-> xm, nx |-> nx, ny |-> ny, model_type |-> mt,
      n_samples |-> n, variogram_model |-> vm,
      anisotropy_angle |-> IF vm = "" THEN 0 ELSE a,
      folder |-> "output", vtk_filename |-> "kriging"] :
        xm \in Extents, nx \in 1..MaxGrid, ny \in 1..MaxGrid,
        mt \in {"gaussian", "cubic"}, n \in 1..MaxSamples,
        vm \in {"", "gaussian", "cubic"}, a \in Angles}

\* a[idx] with an integer index array: IndexError past the end
Take(a, idx) == [k \in 1..Len(idx) |-> a[idx[k]]]

\* a[rows, cols] with two integer index arrays: element k is a[rows[k]][cols[k]]
Take2(a, rows, cols) == [k \in 1..Len(rows) |-> a[rows[k]][cols[k]]]

\* some a[rows[k]][cols[k]] lies outside the array a
OutOfBounds(a, rows, cols) ==
    \E k \in 1..Len(rows) : rows[k] > Shape(a)[1] \/ cols[k] > Shape(a)[2]

\* where main goes after the synthesis try block: the handler returns
SynthesisNext(raised) == IF raised # "" THEN "done" ELSE "sampling"

\* a kriging handler that falls through
KrigingNext_NoReturn(raised) == "plotting"

\* where main goes after the kriging try block: the handler returns
KrigingNext(raised) == IF raised # "" THEN "done" ELSE "plotting"

\* what ok.execute may do in a run of the workflow: SolveOutcomes with one raw
\* variance for all nodes
WorkflowSolveOutcomes(sx, sy, grid_x, grid_y) ==
    {o \in SolveOutcomes(sx, sy, grid_x, grid_y) :
        \A j \in 1..Len(o.variances) : \A i \in 1..Len(o.variances[j]) :
            o.variances[j][i] = o.variances[1][1]}

\* stage 2
Synthesis ==
    /\ pc = "synthesis"
    /\ LET r == generate_synthetic_field(cfg.x_max, cfg.y_max, cfg.nx, cfg.ny, cfg.model_type)
       IN  /\ true_x' = r.x
           /\ true_y' = r.y
           /\ true_field' = r.field
           /\ out' = out \o <<MsgSynthesis>>
                         \o (IF r.raised # "" THEN <<MsgSynthesisError>> ELSE <<>>)
           /\ pc' = SynthesisNext(r.raised)
    /\ UNCHANGED <<call, vtk, cfg, idx_x, idx_y, sample_x, sample_y, sample_values,
                   kriged, exported>>

\* stage 3: rng.integers draws every index on its own
Sampling ==
    /\ pc = "sampling"
    /\ \E ix \in SeqsOfLen(1..cfg.nx, cfg.n_samples), iy \in SeqsOfLen(1..cfg.ny, cfg.n_samples) :
          /\ idx_x' = ix
          /\ idx_y' = iy
          /\ IF \E k \in 1..Len(ix) : ix[k] > Len(true_x) \/ iy[k] > Len(true_y)
             THEN /\ UNCHANGED <<sample_x, sample_y, sample_values>>
                  /\ out' = out \o <<MsgSampling, Traceback("IndexError")>>
                  /\ pc' = "crashed"
             ELSE /\ sample_x' = Take(true_x, ix)
                  /\ sample_y' = Take(true_y, iy)
                  /\ IF OutOfBounds(true_field, iy, ix)
                     THEN /\ sample_values' = sample_values
                          /\ out' = out \o <<MsgSampling, Traceback("IndexError")>>
                          /\ pc' = "crashed"
                     ELSE /\ sample_values' = Take2(true_field, iy, ix)
                          /\ out' = out \o <<MsgSampling>>
                          /\ pc' = "kriging"
    /\ UNCHANGED <<call, vtk, cfg, true_x, true_y, true_field, kriged, exported>>

\* stage 4
Kriging ==
    /\ pc = "kriging"
    /\ LET user_model == cfg.variogram_model
           params == IF user_model # ""
                     THEN DictParams({"model", "angle"}, user_model, cfg.anisotropy_angle)
                     ELSE NoneParams
       IN  \E solve \in WorkflowSolveOutcomes(sample_x, sample_y, true_x, true_y) :
             LET r == run_kriging(sample_x, sample_y, sample_values, true_x, true_y,
                                  params, solve)
             IN  /\ kriged' = r.result
                 /\ out' = out \o <<IF user_model # "" THEN MsgManual ELSE MsgAuto>>
                               \o <<IF r.raised # "" THEN MsgKrigingError
                                                     ELSE MsgKrigingComplete>>
                 /\ pc' = KrigingNext(r.raised)
    /\ UNCHANGED <<call, vtk, cfg, true_x, true_y, true_field, idx_x, idx_y,
                   sample_x, sample_y, sample_values, exported>>

\* stage 5: os.makedirs stands before the try block, the plotting inside it
Visualization ==
    /\ pc = "plotting"
    /\ \E makedirs \in {"", "OSError"}, plot \in {"", "RuntimeError"} :
          IF makedirs # ""
          THEN /\ out' = out \o <<MsgPlotting, Traceback(makedirs)>>
               /\ pc' = "crashed"
          ELSE /\ out' = out \o <<MsgPlotting>>
                             \o <<IF plot # "" THEN MsgPlotError ELSE MsgPlotSaved>>
               /\ pc' = "export"
    /\ UNCHANGED <<call, vtk, cfg, true_x, true_y, true_field, idx_x, idx_y,
                   sample_x, sample_y, sample_values, kriged, exported>>

\* data_to_export
DataToExport ==
    << [name |-> "Prediction", values |-> kriged.predictions],
       [name |-> "Variance", values |-> kriged.variances],
       [name |-> "GroundTruth", values |-> true_field] >>

\* stage 6
Export ==
    /\ pc = "export"
    /\ \E write \in WriteOutcomes :
          LET r == save_to_vtk(cfg.folder \o "/" \o cfg.vtk_filename, DataToExport,
                               true_x, true_y, 0, write)
          IN  /\ exported' = r.file
              /\ out' = out \o <<MsgExporting>>
                            \o <<IF r.raised # "" THEN MsgVtkError ELSE MsgVtkSaved>>
              /\ pc' = "done"
    /\ UNCHANGED <<call, vtk, cfg, true_x, true_y, true_field, idx_x, idx_y,
                   sample_x, sample_y, sample_values, kriged>>

InitMain ==
    /\ call = NoCall /\ vtk = NoVtk
    /\ pc = "synthesis" /\ cfg \in Configs /\ out = <<>>
    /\ true_x = <<>> /\ true_y = <<>> /\ true_field = NoField
    /\ idx_x = <<>> /\ idx_y = <<>>
    /\ sample_x = <<>> /\ sample_y = <<>> /\ sample_values = <<>>
    /\ kriged = NoResult /\ exported = NoFile

NextMain == Synthesis \/ Sampling \/ Kriging \/ Visualization \/ Export

SpecMain == InitMain /\ [][NextMain]_vars

InitVtk == call = NoCall /\ (\E n \in 0..MaxFields : vtk \in VtkCalls(n)) /\ MainIdle

NextVtk == CallSaveToVtk

SpecVtk == InitVtk /\ [][NextVtk]_vars

(* ------------------------ properties of save_to_vtk -------------------- *)

Saved == vtk.op = "save_to_vtk" /\ vtk.ret # Pending

\* the shape the coordinate arrays call for
GridShape == <<Len(vtk.y_coords), Len(vtk.x_coords)>>

\* C6: a call in which any field has a shape other than
\* (len(y_coords), len(x_coords)) raises the shape-mismatch error and writes no
\* file.
C6_EveryMismatchRejected ==
    (Saved /\ \E k \in 1..Len(vtk.data_fields) :
                  Shape(vtk.data_fields[k].values) # GridShape) =>
        (vtk.ret.raised = "ValueError" /\ vtk.ret.file = NoFile)

\* C7: a successful call with fields of shape (ny, nx) writes one DataArray
\* per entry of data_fields, named by its key and in the dict's order, of
\* nx*ny values, the value at flat position j*nx + i being field[j][i].
C7_PointDataRowMajor ==
    (/\ Saved /\ vtk.ret.raised = ""
     /\ \A k \in 1..Len(vtk.data_fields) : Shape(vtk.data_fields[k].values) = GridShape) =>
        LET ny == GridShape[1]
            nx == GridShape[2]
            pd == vtk.ret.file.PointData
        IN  /\ Len(pd) = Len(vtk.data_fields)
            /\ \A k \in 1..Len(pd) :
                  /\ pd[k].Name = vtk.data_fields[k].name
                  /\ Len(pd[k].text) = nx * ny
                  /\ \A j \in 0..(ny - 1) : \A i \in 0..(nx - 1) :
                        pd[k].text[j * nx + i + 1] =
                            Str(vtk.data_fields[k].values[j + 1][i + 1])

C7_Witness ==
    /\ Saved /\ vtk.ret.raised = ""
    /\ Len(vtk.data_fields) = 2
    /\ GridShape = <<2, 2>>
    /\ \A k \in 1..2 : Shape(vtk.data_fields[k].values) = GridShape
    /\ vtk.ret.file.PointData[1].text[2] = Str(vtk.data_fields[1].values[1][2])
    /\ vtk.ret.file.PointData[1].text[3] = Str(vtk.data_fields[1].values[2][1])
(* -------------------------- properties of main ------------------------- *)

\* main printed m
Printed(m) == \E p \in 1..Len(out) : out[p] = m

\* where main printed m (0: nowhere)
Position(m) == IF Printed(m) THEN CHOOSE p \in 1..Len(out) : out[p] = m ELSE 0

\* main printed m more than once
PrintedTwice(m) == \E p, q \in 1..Len(out) : p # q /\ out[p] = m /\ out[q] = m

MainEnded == pc \in {"done", "crashed"}

\* C8: in a run where synthesis and kriging succeeded, a failure of the
\* plotting stage (creating the output folder included) is reported and the
\* export is still attempted; a failed export is reported and the kriging
\* report stays.
C8_PlotFailureDoesNotStopExport ==
    (MainEnded /\ Printed(MsgKrigingComplete)) =>
        /\ Printed(MsgExporting)
        /\ Printed(MsgPlotSaved) \/ Printed(MsgPlotError)
        /\ Printed(MsgVtkSaved) \/ Printed(MsgVtkError)

\* C9: no two of the n_samples <= nx*ny points handed to run_kriging share
\* one (idx_x, idx_y) grid index pair.
C9_UniqueSampleLocations ==
    (pc \notin {"synthesis", "sampling"} /\ idx_x # <<>> /\ cfg.n_samples <= cfg.nx * cfg.ny) =>
        \A k, l \in 1..Len(idx_x) :
            k # l => <<idx_x[k], idx_y[k]>> # <<idx_x[l], idx_y[l]>>

\* the stages in the order of the workflow, by the line that opens each
StageOpeners ==
    <<MsgSynthesis, MsgSampling,
      IF cfg.variogram_model # "" THEN MsgManual ELSE MsgAuto,
      MsgPlotting, MsgExporting>>

\* main opened the kriging stage
KrigingAttempted == Printed(MsgManual) \/ Printed(MsgAuto)

\* C10: the stages run in the order synthesis, sampling, kriging, plotting,
\* export; after a synthesis that raised, none of sampling, kriging, plotting
\* and export is attempted; after a kriging that raised, neither plotting nor
\* export is; export is attempted only after synthesis and kriging returned.
C10_StagesInOrder ==
    /\ \A a, b \in 1..Len(StageOpeners) :
          (a < b /\ Printed(StageOpeners[b])) =>
              (Printed(StageOpeners[a]) /\ Position(StageOpeners[a]) < Position(StageOpeners[b]))
    /\ \A a \in 1..Len(StageOpeners) : ~PrintedTwice(StageOpeners[a])
    /\ Printed(MsgSynthesisError) =>
          (/\ ~Printed(MsgSampling) /\ ~KrigingAttempted
           /\ ~Printed(MsgPlotting) /\ ~Printed(MsgExporting)
           /\ pc = "done")
    /\ Printed(MsgKrigingError) =>
          (~Printed(MsgPlotting) /\ ~Printed(MsgExporting) /\ pc = "done")
    /\ KrigingAttempted => (Printed(MsgSampling) /\ true_field # NoField)
    /\ Printed(MsgExporting) =>
          (/\ true_field # NoField /\ kriged # NoResult
           /\ Printed(MsgKrigingComplete)
           /\ ~Printed(MsgSynthesisError) /\ ~Printed(MsgKrigingError))

C10_Witness ==
    /\ pc = "done"
    /\ Printed(MsgKrigingError)
    /\ ~Printed(MsgPlotting) /\ ~Printed(MsgExporting)
    /\ true_field # NoField /\ kriged = NoResult

====
